---- MODULE Spec2Model ----
(***************************************************************************)
(* Model of src/src/main.rs: the kline fetch, the position calculator, the *)
(* signed batch placement / batch cancellation requests and the main loop. *)
(*                                                                         *)
(* Numbers.  An opening price is an integer count of 1/PriceScale units,   *)
(* a tier price is a rational num/den, and a rendered decimal string is    *)
(* the record [digits, decimals] (digits / 10^decimals).  The f64          *)
(* arithmetic of the program is modelled by exact rational arithmetic.     *)
(* HMAC-SHA256 is modelled as an injective function of its key and its     *)
(* message: the record [hmacKey, msg].                                     *)
(***************************************************************************)
EXTENDS Integers, Sequences, FiniteSets, TLC

VARIABLES
    pc,                 \* position of main: fetch, place, place_wait, hold,
                        \* cancel_wait, cooldown, crashed
    cycle,              \* number of the running loop iteration
    now,                \* wall clock, milliseconds
    results,            \* symbol -> result of get_kline in this cycle
    idx,                \* position of `for result in results`
    cancel_order_data,  \* the Vec<CancelOrderData> of this cycle
    inflight,           \* POST requests sent and not yet answered
    nextId,             \* the exchange's next order identifier
    crash,              \* why the process terminated ("" while it runs)
    raw,                \* history: raw answer each fetch of this cycle received
    placeCalls,         \* history: symbols place_batch_order was called for, this cycle
    placed,             \* history: result lists of the envelopes answered to this cycle's placements
    lastResp,           \* history: the last answer to a POST
    cancelCount,        \* history: order id -> number of cancel requests that carried it
    tHold,              \* history: clock when the holding sleep began
    tCool,              \* history: clock when the cooldown sleep began
    phases,             \* history: phases this cycle went through, in order
    c_pc, c_symbol, c_price, c_pos, c_reqs   \* the calculator exercised alone

mainVars == <<pc, cycle, now, results, idx, cancel_order_data, inflight, nextId,
              crash, raw, placeCalls, placed, lastResp, cancelCount,
              tHold, tCool, phases>>
calcVars == <<c_pc, c_symbol, c_price, c_pos, c_reqs>>
vars == <<mainVars, calcVars>>

----------------------------------------------------------------------------
\* Bounds of the model
MaxCycles == 2
MaxPrice == 300

\* Program constants
NumTiers == 3
HoldSecs == 86400
CooldownSecs == 60

symbols == <<"BEAMUSDT", "SEIUSDT", "AGIXUSDT">>
Symbols == {symbols[i] : i \in 1..Len(symbols)}
recv_window == "10000"
api_key == "API_KEY"
api_secret == "API_SECRET"
batch_order_url == "BATCH_ORDER_URL"
batch_cancel_order_url == "BATCH_CANCEL_ORDER_URL"

RECURSIVE Pow10(_)
Pow10(k) == IF k = 0 THEN 1 ELSE 10 * Pow10(k - 1)

\* Opening prices are counted in hundredths: "2.00" is 2 * PriceScale.
PriceScale == Pow10(2)

RECURSIVE GCD(_, _)
GCD(a, b) == IF b = 0 THEN a ELSE GCD(b, a % b)

----------------------------------------------------------------------------
\* f64::round: to the nearest integer, halves away from zero (num, den > 0).
Round(num, den) == (2 * num + den) \div (2 * den)

\* format!("{:.k}", x): x = num/den rendered with exactly k decimals, rounded
\* to nearest, ties to even.
FormatFixed(num, den, k) ==
    LET g == GCD(Pow10(k), den)
        n == num * (Pow10(k) \div g)
        d == den \div g
        q == n \div d
        r == n % d
        up == (2 * r > d) \/ (2 * r = d /\ q % 2 = 1)
    IN  [digits |-> IF up THEN q + 1 ELSE q, decimals |-> k]

\* format!("{}", x) and format!("{:.0}", x) of an integral f64.
FormatInt(n) == [digits |-> n, decimals |-> 0]

\* The per-symbol precision of the match in calculate_position.
PriceDecimals(symbol) ==
    CASE symbol = "BEAMUSDT" -> 6
      [] symbol = "SEIUSDT" -> 5
      [] symbol = "AGIXUSDT" -> 5
      [] OTHER -> 0

\* price - (price * pct/100), as a rational over PriceScale * 100.
BadTierPrice(price, pct) == [num |-> price * 100 - price * (pct \div 10), den |-> PriceScale * 100]
TierPrice(price, pct) == [num |-> price * 100 - price * pct, den |-> PriceScale * 100]

\* alloc / tier_price, as a rational.
TierSize(alloc, t) == [num |-> alloc * t.den, den |-> t.num]

None == [kind |-> "None"]

calculate_position(price, symbol) ==
    LET p20 == TierPrice(price, 20)
        p25 == TierPrice(price, 25)
        p30 == TierPrice(price, 30)
        s20 == TierSize(1000, p20)
        s25 == TierSize(1000, p25)
        s30 == TierSize(2000, p30)
        k == PriceDecimals(symbol)
    IN  IF symbol \in {"BEAMUSDT", "SEIUSDT", "AGIXUSDT"}
        THEN [kind |-> "Some",
              twenty_percent_price |-> FormatFixed(p20.num, p20.den, k),
              twenty_five_percent_price |-> FormatFixed(p25.num, p25.den, k),
              thirty_percent_price |-> FormatFixed(p30.num, p30.den, k),
              twenty_percent_size |-> FormatInt(Round(s20.num, s20.den)),
              twenty_five_percent_size |-> FormatInt(Round(s25.num, s25.den)),
              thirty_percent_size |-> FormatInt(Round(s30.num, s30.den))]
        ELSE None

OrderRequest(symbol, qty, price) ==
    [symbol |-> symbol, side |-> "Buy", orderType |-> "Limit", qty |-> qty, price |-> price]

\* let parameters: [OrderRequest; 3]
OrderRequests(symbol, position) ==
    << OrderRequest(symbol, position.twenty_percent_size, position.twenty_percent_price),
       OrderRequest(symbol, position.twenty_five_percent_size, position.twenty_five_percent_price),
       OrderRequest(symbol, position.thirty_percent_size, position.thirty_percent_price) >>

\* price.parse::<f64>(): the text of an opening price is [num, val]; a text
\* that is no number does not parse.
ParsePrice(text) == IF text.num THEN [kind |-> "Ok", val |-> text.val] ELSE [kind |-> "Err"]

\* The start of place_batch_order: parse, calculate, build the three order
\* requests; both expect() calls panic.
Prepare(symbol, price_text) ==
    LET price_num == ParsePrice(price_text)
        position == IF price_num.kind = "Ok" THEN calculate_position(price_num.val, symbol) ELSE None
    IN  IF price_num.kind = "Err"
        THEN [kind |-> "Panic", msg |-> "failed converting price to number"]
        ELSE IF position.kind = "None"
        THEN [kind |-> "Panic", msg |-> "Failed calculating position"]
        ELSE [kind |-> "Ready", parameters |-> OrderRequests(symbol, position)]

----------------------------------------------------------------------------
\* The calculator exercised alone, over every price 1..MaxPrice and over the
\* three supported symbols and one unsupported symbol.
CalcSymbols == Symbols \cup {"DOGEUSDT"}
NoPos == [kind |-> "NotRun"]

CalcInit ==
    /\ c_pc = "input"
    /\ c_symbol \in CalcSymbols
    /\ c_price \in 1..MaxPrice
    /\ c_pos = NoPos
    /\ c_reqs = <<>>

CalcPosition ==
    /\ c_pc = "input"
    /\ c_pos' = calculate_position(c_price, c_symbol)
    /\ c_pc' = "calculated"
    /\ UNCHANGED <<c_symbol, c_price, c_reqs>>

CalcBuild ==
    /\ c_pc = "calculated"
    /\ Prepare(c_symbol, [num |-> TRUE, val |-> c_price]).kind = "Ready"
    /\ c_reqs' = Prepare(c_symbol, [num |-> TRUE, val |-> c_price]).parameters
    /\ c_pc' = "built"
    /\ UNCHANGED <<c_symbol, c_price, c_pos>>

CalcPanic ==
    /\ c_pc = "calculated"
    /\ Prepare(c_symbol, [num |-> TRUE, val |-> c_price]).kind = "Panic"
    /\ c_pc' = "panicked"
    /\ UNCHANGED <<c_symbol, c_price, c_pos, c_reqs>>

----------------------------------------------------------------------------
\* What the candlestick endpoint can answer: no answer (transport failure), a
\* body that is no ApiResponse<KlineData>, or an envelope with a candle list.
OpenPriceTexts == {[num |-> TRUE, val |-> 2 * PriceScale], [num |-> FALSE, val |-> 0]}
KlineResponses ==
    {[kind |-> "transport_fail", list |-> <<>>], [kind |-> "bad_body", list |-> <<>>],
     [kind |-> "envelope", list |-> <<>>]}
    \cup {[kind |-> "envelope", list |-> <<t>>] : t \in OpenPriceTexts}

Pending == [kind |-> "Pending"]

\* Mutation of get_kline: the transport error is unwrapped instead of returned.
get_kline_unwrap(symbol, response) ==
    CASE response.kind = "transport_fail" -> [kind |-> "Panic"]
      [] response.kind = "bad_body" -> [kind |-> "Err", error |-> "DecodeError"]
      [] response.list = <<>> -> [kind |-> "Panic"]
      [] OTHER -> [kind |-> "Ok", symbol |-> symbol, open_price |-> Head(response.list)]

\* get_kline: `?` returns the transport and the decode error; first().unwrap()
\* panics on an empty list.
get_kline(symbol, response) ==
    CASE response.kind = "transport_fail" -> [kind |-> "Err", error |-> "TransportError"]
      [] response.kind = "bad_body" -> [kind |-> "Err", error |-> "DecodeError"]
      [] response.list = <<>> -> [kind |-> "Panic"]
      [] OTHER -> [kind |-> "Ok", symbol |-> symbol, open_price |-> Head(response.list)]

----------------------------------------------------------------------------
\* serde_json::Map keeps its entries ordered by key.
KeyRank(key) == IF key = "category" THEN 1 ELSE 2

MapNew == <<>>

MapInsert(map, key, value) ==
    LET before == SelectSeq(map, LAMBDA e : KeyRank(e.key) < KeyRank(key))
        after == SelectSeq(map, LAMBDA e : KeyRank(e.key) > KeyRank(key))
    IN  before \o <<[key |-> key, value |-> value]>> \o after

\* serde_json::to_string / RequestBuilder::json: the entries in map order.
to_string(map) == [i \in 1..Len(map) |-> <<map[i].key, map[i].value>>]

\* Mutation of generate_post_signature: the receive window is left out of the
\* signed string.
generate_post_signature_no_window(timestamp, key, window, params, secret) ==
    [hmacKey |-> secret, msg |-> <<timestamp, key, to_string(params)>>]

generate_post_signature(timestamp, key, window, params, secret) ==
    [hmacKey |-> secret, msg |-> <<timestamp, key, window, to_string(params)>>]

Headers(signature, timestamp) ==
    [X_BAPI_API_KEY |-> api_key, X_BAPI_SIGN |-> signature, X_BAPI_SIGN_TYPE |-> "2",
     X_BAPI_TIMESTAMP |-> timestamp, X_BAPI_RECV_WINDOW |-> recv_window,
     Content_Type |-> "application/json"]

\* The POST of place_batch_order.
PlaceRequest(timestamp, symbol, parameters) ==
    LET params == MapInsert(MapInsert(MapNew, "category", "linear"), "request", parameters)
        signature == generate_post_signature(timestamp, api_key, recv_window, params, api_secret)
    IN  [url |-> batch_order_url, symbol |-> symbol, body |-> to_string(params),
         headers |-> Headers(signature, timestamp)]

\* The POST of cancel_batch_order.
CancelRequest(timestamp, data) ==
    LET params == MapInsert(MapInsert(MapNew, "category", "linear"), "request", data)
        signature == generate_post_signature(timestamp, api_key, recv_window, params, api_secret)
    IN  [url |-> batch_cancel_order_url, symbol |-> "", body |-> to_string(params),
         headers |-> Headers(signature, timestamp)]

\* What the batch order endpoint can answer to a placement for `symbol`: no
\* answer, a body that is no ApiResponse<BatchOrderResult>, or an envelope
\* whose list holds n entries with fresh order identifiers.
RetCodes == {0, 10001}
ListLengths == {0, 1, NumTiers}

OrderList(symbol, n) ==
    [i \in 1..n |-> [category |-> "linear", symbol |-> symbol, orderId |-> nextId + i - 1,
                      orderLinkId |-> "", createAt |-> now]]

OrderResponses(symbol) ==
    {[kind |-> "http_fail", retCode |-> 0, list |-> <<>>],
     [kind |-> "bad_body", retCode |-> 0, list |-> <<>>]}
    \cup {[kind |-> "envelope", retCode |-> c, list |-> OrderList(symbol, n)] :
             c \in RetCodes, n \in ListLengths}

NoResp == [kind |-> "none", retCode |-> 0, list |-> <<>>]

CancelOrderData(order_response) ==
    [symbol |-> order_response.symbol, orderId |-> order_response.orderId]

\* Mutation of the tail of place_batch_order: a non-zero ret code is an error.
place_result_checks_ret(response) ==
    IF response.kind = "envelope" /\ response.retCode = 0
    THEN [kind |-> "Ok", data |-> [i \in 1..Len(response.list) |-> CancelOrderData(response.list[i])]]
    ELSE [kind |-> "Err", data |-> <<>>]

\* The tail of place_batch_order: `?` on send and on json, then one
\* CancelOrderData per entry of result.list; ret_code is not read.
place_result(response) ==
    IF response.kind = "envelope"
    THEN [kind |-> "Ok", data |-> [i \in 1..Len(response.list) |-> CancelOrderData(response.list[i])]]
    ELSE [kind |-> "Err", data |-> <<>>]

\* What the batch cancel endpoint can answer: no answer, a body that cannot
\* be read, or some text.
CancelResponses ==
    {[kind |-> k, retCode |-> 0, list |-> <<>>] : k \in {"http_fail", "body_fail", "text"}}

cancel_result(response) == IF response.kind = "text" THEN "Ok" ELSE "Err"

\* Mutation of .expect("Error placing order"): the error is dropped and the
\* loop goes on.
ExpectPlacedLenient(r) == "place"

\* .expect("Error placing order") and the continuation of the for loop.
ExpectPlaced(r) == IF r.kind = "Err" THEN "crashed" ELSE "place"

\* .expect("Failed canceling orders") and the continuation to the cooldown.
ExpectCancelled(r) == IF r = "Err" THEN "crashed" ELSE "cooldown"

\* Mutation of Vec::extend: the vector is overwritten.
Overwrite(vec, data) == data

\* cancel_order_data.extend(cancel_data)
Extend(vec, data) == vec \o data

\* Mutation of the declaration of cancel_order_data: hoisted out of the loop,
\* so the vector of the previous cycle is kept.
StaleVec == cancel_order_data

\* let mut cancel_order_data: Vec<CancelOrderData> = Vec::new();
VecNew == <<>>

\* Mutation of join_all: the first completed fetch ends the wait.
AnyJoined == \E s \in Symbols : results[s].kind # "Pending"

\* futures::future::join_all(futures).await is over
AllJoined == \A s \in Symbols : results[s].kind # "Pending"

OrderIds(data) == [i \in 1..Len(data) |-> data[i].orderId]
Occurrences(seq, x) == Cardinality({i \in 1..Len(seq) : seq[i] = x})

----------------------------------------------------------------------------
\* The main loop.

MainInit ==
    /\ pc = "fetch"
    /\ cycle = 1
    /\ now = 0
    /\ results = [s \in Symbols |-> Pending]
    /\ idx = 1
    /\ cancel_order_data = <<>>
    /\ inflight = {}
    /\ nextId = 1
    /\ crash = ""
    /\ raw = [s \in Symbols |-> NoResp]
    /\ placeCalls = <<>>
    /\ placed = <<>>
    /\ lastResp = NoResp
    /\ cancelCount = <<>>
    /\ tHold = 0
    /\ tCool = 0
    /\ phases = <<"fetch">>

CalcIdle ==
    /\ c_pc = "idle"
    /\ c_symbol = "BEAMUSDT"
    /\ c_price = 1
    /\ c_pos = NoPos
    /\ c_reqs = <<>>

\* One of the joined get_kline futures receives its answer.
FetchComplete(s, response) ==
    /\ pc = "fetch"
    /\ results[s].kind = "Pending"
    /\ now' = now + 1
    /\ raw' = [raw EXCEPT ![s] = response]
    /\ LET r == get_kline(s, response)
       IN  IF r.kind = "Panic"
           THEN /\ pc' = "crashed"
                /\ crash' = "called Option::unwrap() on a None value"
                /\ UNCHANGED results
           ELSE /\ results' = [results EXCEPT ![s] = r]
                /\ UNCHANGED <<pc, crash>>
    /\ UNCHANGED <<cycle, idx, cancel_order_data, inflight, nextId, placeCalls, placed,
                   lastResp, cancelCount, tHold, tCool, phases, calcVars>>

\* join_all returns; the cycle's vector is created and the for loop starts.
JoinAll ==
    /\ pc = "fetch"
    /\ AllJoined
    /\ pc' = "place"
    /\ idx' = 1
    /\ cancel_order_data' = VecNew
    /\ phases' = Append(phases, "place")
    /\ UNCHANGED <<cycle, now, results, inflight, nextId, crash, raw, placeCalls, placed,
                   lastResp, cancelCount, tHold, tCool, calcVars>>

\* `if let Ok(..) = result` does not match: the symbol is passed over.
SkipFailed ==
    /\ pc = "place"
    /\ idx <= Len(symbols)
    /\ results[symbols[idx]].kind = "Err"
    /\ idx' = idx + 1
    /\ UNCHANGED <<pc, cycle, now, results, cancel_order_data, inflight, nextId, crash, raw,
                   placeCalls, placed, lastResp, cancelCount, tHold, tCool, phases, calcVars>>

\* place_batch_order is called for the next Ok result: it panics, or it
\* signs and sends the batch.
PlaceSend ==
    /\ pc = "place"
    /\ idx <= Len(symbols)
    /\ results[symbols[idx]].kind = "Ok"
    /\ LET r == results[symbols[idx]]
           prep == Prepare(r.symbol, r.open_price)
       IN  /\ placeCalls' = Append(placeCalls, r.symbol)
           /\ IF prep.kind = "Panic"
              THEN /\ pc' = "crashed"
                   /\ crash' = prep.msg
                   /\ UNCHANGED inflight
              ELSE /\ pc' = "place_wait"
                   /\ inflight' = inflight \cup {PlaceRequest(now, r.symbol, prep.parameters)}
                   /\ UNCHANGED crash
    /\ UNCHANGED <<cycle, now, results, idx, cancel_order_data, nextId, raw, placed,
                   lastResp, cancelCount, tHold, tCool, phases, calcVars>>

\* The placement is answered: an error panics in main, a decoded envelope
\* extends the cycle's vector and the loop moves to the next result.
PlaceResp(req, response) ==
    /\ pc = "place_wait"
    /\ req \in inflight
    /\ req.url = batch_order_url
    /\ inflight' = inflight \ {req}
    /\ now' = now + 1
    /\ lastResp' = response
    /\ nextId' = nextId + Len(response.list)
    /\ cancelCount' = cancelCount \o [i \in 1..Len(response.list) |-> 0]
    /\ LET r == place_result(response)
       IN  /\ pc' = ExpectPlaced(r)
           /\ IF pc' = "crashed"
              THEN /\ crash' = "Error placing order"
                   /\ UNCHANGED <<idx, cancel_order_data, placed>>
              ELSE /\ cancel_order_data' = Extend(cancel_order_data, r.data)
                   /\ placed' = IF response.kind = "envelope" THEN Append(placed, response.list) ELSE placed
                   /\ idx' = idx + 1
                   /\ UNCHANGED crash
    /\ UNCHANGED <<cycle, results, raw, placeCalls, tHold, tCool, phases, calcVars>>

\* The for loop is over: the 24 h sleep starts.
StartHold ==
    /\ pc = "place"
    /\ idx > Len(symbols)
    /\ pc' = "hold"
    /\ tHold' = now
    /\ phases' = Append(phases, "hold")
    /\ UNCHANGED <<cycle, now, results, idx, cancel_order_data, inflight, nextId, crash, raw,
                   placeCalls, placed, lastResp, cancelCount, tCool, calcVars>>

\* The 24 h sleep is over and the vector is not empty: cancel_batch_order
\* signs and sends the batch cancel.
CancelSend ==
    /\ pc = "hold"
    /\ cancel_order_data # <<>>
    /\ now' = now + HoldSecs * 1000
    /\ pc' = "cancel_wait"
    /\ inflight' = inflight \cup {CancelRequest(now', cancel_order_data)}
    /\ cancelCount' = [i \in 1..Len(cancelCount) |->
                          cancelCount[i] + Occurrences(OrderIds(cancel_order_data), i)]
    /\ phases' = Append(phases, "cancel")
    /\ UNCHANGED <<cycle, results, idx, cancel_order_data, nextId, crash, raw, placeCalls,
                   placed, lastResp, tHold, tCool, calcVars>>

\* The 24 h sleep is over and the vector is empty: no request, the 60 s
\* sleep starts.
CancelSkip ==
    /\ pc = "hold"
    /\ cancel_order_data = <<>>
    /\ now' = now + HoldSecs * 1000
    /\ pc' = "cooldown"
    /\ tCool' = now'
    /\ phases' = Append(phases, "cooldown")
    /\ UNCHANGED <<cycle, results, idx, cancel_order_data, inflight, nextId, crash, raw,
                   placeCalls, placed, lastResp, cancelCount, tHold, calcVars>>

\* The cancel is answered: an error panics in main, otherwise the 60 s sleep
\* starts.
CancelResp(req, response) ==
    /\ pc = "cancel_wait"
    /\ req \in inflight
    /\ req.url = batch_cancel_order_url
    /\ inflight' = inflight \ {req}
    /\ now' = now + 1
    /\ lastResp' = response
    /\ pc' = ExpectCancelled(cancel_result(response))
    /\ IF pc' = "crashed"
       THEN /\ crash' = "Failed canceling orders"
            /\ UNCHANGED <<tCool, phases>>
       ELSE /\ tCool' = now'
            /\ phases' = Append(phases, "cooldown")
            /\ UNCHANGED crash
    /\ UNCHANGED <<cycle, results, idx, cancel_order_data, nextId, raw, placeCalls, placed,
                   cancelCount, tHold, calcVars>>

\* The 60 s sleep is over: the next iteration starts its three fetches.
NextCycle ==
    /\ pc = "cooldown"
    /\ cycle < MaxCycles
    /\ now' = now + CooldownSecs * 1000
    /\ cycle' = cycle + 1
    /\ pc' = "fetch"
    /\ results' = [s \in Symbols |-> Pending]
    /\ raw' = [s \in Symbols |-> NoResp]
    /\ placeCalls' = <<>>
    /\ placed' = <<>>
    /\ lastResp' = NoResp
    /\ phases' = <<"fetch">>
    /\ UNCHANGED <<idx, cancel_order_data, inflight, nextId, crash, cancelCount, tHold, tCool,
                   calcVars>>

Init == MainInit /\ CalcIdle

Next ==
    \/ \E s \in Symbols, response \in KlineResponses : FetchComplete(s, response)
    \/ JoinAll
    \/ SkipFailed
    \/ PlaceSend
    \/ \E req \in inflight : \E response \in OrderResponses(req.symbol) : PlaceResp(req, response)
    \/ StartHold
    \/ CancelSend
    \/ CancelSkip
    \/ \E req \in inflight, response \in CancelResponses : CancelResp(req, response)
    \/ NextCycle

Spec == Init /\ [][Next]_vars

\* The calculator alone.
InitCalc == MainInit /\ CalcInit

NextCalc ==
    \/ CalcPosition /\ UNCHANGED mainVars
    \/ CalcBuild /\ UNCHANGED mainVars
    \/ CalcPanic /\ UNCHANGED mainVars

SpecCalc == InitCalc /\ [][NextCalc]_vars

----------------------------------------------------------------------------
\* Properties

RECURSIVE Flatten(_)
Flatten(ss) == IF ss = <<>> THEN <<>> ELSE Head(ss) \o Flatten(Tail(ss))

RecordOf(entry) == [symbol |-> entry.symbol, orderId |-> entry.orderId]
RecordsOf(list) == [i \in 1..Len(list) |-> RecordOf(list[i])]
Payload(req) == req.body[2][2]
CancelsInFlight == {req \in inflight : req.url = batch_cancel_order_url}
PlacesInFlight == {req \in inflight : req.url = batch_order_url}
IsPrefix(a, b) == Len(a) <= Len(b) /\ a = SubSeq(b, 1, Len(a))
InSeq(x, seq) == \E i \in 1..Len(seq) : seq[i] = x
FetchFailed(s) == raw[s].kind \in {"transport_fail", "bad_body"}
FetchedPrice(s) == raw[s].kind = "envelope" /\ raw[s].list # <<>>
NoFetchPending == \A s \in Symbols : raw[s].kind # "none" /\ results[s].kind \in {"Ok", "Err"}

\* C1: the records of a batch-cancel request are exactly the concatenation,
\* in order, of the (symbol, orderId) pairs of the result lists answered to
\* this cycle's placements: one record per list entry, none from an earlier
\* cycle, none missing.
C1_CancelPayloadIsPlaced ==
    /\ \A req \in CancelsInFlight :
          /\ Payload(req) = RecordsOf(Flatten(placed))
          /\ Len(Payload(req)) = Len(Flatten(placed))
    /\ pc \in {"hold", "cancel_wait", "cooldown"} =>
          cancel_order_data = RecordsOf(Flatten(placed))

C1_Witness ==
    /\ cycle = 2
    /\ \E req \in CancelsInFlight :
          /\ Len(Payload(req)) = 2 * NumTiers
          /\ Payload(req)[1].symbol # Payload(req)[2 * NumTiers].symbol
          /\ Payload(req)[1].orderId > 1

\* C2: fetch (all joined) -> place (one at a time) -> 24 h sleep -> cancel ->
\* 60 s sleep -> next cycle: no placement while a fetch of the cycle is
\* pending, at most one request in flight, a cancel request only after the
\* holding sleep, and no fetch of the next cycle before the cooldown is over.
C2_StepOrder ==
    /\ (placeCalls # <<>> \/ inflight # {}) => NoFetchPending
    /\ Cardinality(inflight) <= 1
    /\ PlacesInFlight # {} => pc = "place_wait"
    /\ \A req \in CancelsInFlight :
          /\ pc = "cancel_wait"
          /\ req.headers.X_BAPI_TIMESTAMP >= tHold + HoldSecs * 1000
    /\ pc = "fetch" =>
          /\ inflight = {} /\ placeCalls = <<>> /\ placed = <<>>
          /\ cycle > 1 => /\ now >= tCool + CooldownSecs * 1000
                          /\ tCool >= tHold + HoldSecs * 1000
    /\ \/ IsPrefix(phases, <<"fetch", "place", "hold", "cancel", "cooldown">>)
       \/ IsPrefix(phases, <<"fetch", "place", "hold", "cooldown">>)
    /\ pc \in {"fetch", "place", "hold", "cooldown"} => phases[Len(phases)] = pc

C2_Witness ==
    /\ cycle = 2
    /\ pc = "place_wait"
    /\ \E i \in 1..Len(cancelCount) : cancelCount[i] = 1

\* C3 as amended: a transport or decode error of one fetch is an error
\* value; it leaves the results of the other fetches as their own answers
\* give them, it never terminates the process, no placement is called for the
\* failed symbol, and whenever the cycle reaches the holding sleep a
\* placement was called, in list order, for every symbol whose fetch
\* succeeded.
C3_FetchErrorAbsorbed ==
    /\ \A s \in Symbols : FetchFailed(s) =>
          /\ results[s].kind = "Err"
          /\ ~InSeq(s, placeCalls)
    /\ \A s \in Symbols : FetchedPrice(s) =>
          results[s] = [kind |-> "Ok", symbol |-> s, open_price |-> raw[s].list[1]]
    /\ crash = "called Option::unwrap() on a None value" =>
          \E s \in Symbols : raw[s].kind = "envelope" /\ raw[s].list = <<>>
    /\ pc \in {"hold", "cancel_wait", "cooldown"} =>
          placeCalls = SelectSeq(symbols, LAMBDA s : results[s].kind = "Ok")

C3_Witness ==
    /\ pc = "hold"
    /\ FetchFailed("BEAMUSDT")
    /\ raw["SEIUSDT"].kind = "bad_body"
    /\ placeCalls = <<"AGIXUSDT">>

\* C3 as stated: when one fetch fails with a transport or decode error and
\* the other fetches succeed with a numeric price, the process keeps running.
C3_Original ==
    ( /\ NoFetchPending
      /\ \E s \in Symbols :
            /\ FetchFailed(s)
            /\ \A t \in Symbols \ {s} : FetchedPrice(t) /\ raw[t].list[1].num )
    => pc # "crashed"

\* C4: an envelope with an empty candle list gives the fetch the error value
\* NoDataError and the process goes on.
C4_EmptyListIsNoDataError ==
    \A s \in Symbols : (raw[s].kind = "envelope" /\ raw[s].list = <<>>) =>
        /\ results[s] = [kind |-> "Err", error |-> "NoDataError"]
        /\ pc # "crashed"

\* C5: an error answer to a placement or to a cancellation terminates the
\* process, and a terminated process takes no further step (no retry, no
\* sleep, no cancel, no fetch, no later cycle).
C5_ErrorTerminates ==
    [][ /\ (lastResp' # lastResp /\ lastResp'.kind \in {"http_fail", "bad_body", "body_fail"})
             => (pc' = "crashed" /\ inflight' = {})
        /\ pc = "crashed" => UNCHANGED vars ]_vars

C5_Witness ==
    /\ pc = "crashed"
    /\ crash = "Failed canceling orders"
    /\ lastResp.kind = "http_fail"
    /\ cycle < MaxCycles

\* C6: for a symbol without a precision rule the calculator returns no
\* result and the caller skips the placement without crashing.
C6_UnsupportedSkipped ==
    (c_symbol \notin {"BEAMUSDT", "SEIUSDT", "AGIXUSDT"} /\ c_pc # "input") =>
        /\ c_pos = None
        /\ c_pc # "panicked"

\* C7: for every price P in 1..MaxPrice hundredths and every supported symbol
\* the rendered tier prices are P x 0.80, P x 0.75, P x 0.70, strictly
\* decreasing, the sizes are 1000/T1, 1000/T2, 2000/T3 rounded half away
\* from zero, BEAMUSDT prices have 6 decimals (2.00 gives 1.600000, 1.500000,
\* 1.400000 and 625, 667, 1429), and the three order requests carry the
\* pairs in the order 20 %, 25 %, 30 %, each Buy and Limit.
IsRounded(size, alloc, pct) ==
    /\ size.decimals = 0
    /\ (2 * size.digits - 1) * c_price * (100 - pct) <= 2 * alloc * 100 * PriceScale
    /\ 2 * alloc * 100 * PriceScale < (2 * size.digits + 1) * c_price * (100 - pct)

IsTierPrice(price, pct, k) ==
    /\ price.decimals = k
    /\ price.digits = c_price * (100 - pct) * (Pow10(k) \div (100 * PriceScale))

C7_TierPricesAndSizes ==
    (c_symbol \in {"BEAMUSDT", "SEIUSDT", "AGIXUSDT"} /\ c_pc # "input") =>
        LET k == IF c_symbol = "BEAMUSDT" THEN 6 ELSE 5 IN
        /\ c_pos.kind = "Some"
        /\ IsTierPrice(c_pos.twenty_percent_price, 20, k)
        /\ IsTierPrice(c_pos.twenty_five_percent_price, 25, k)
        /\ IsTierPrice(c_pos.thirty_percent_price, 30, k)
        /\ c_pos.twenty_percent_price.digits > c_pos.twenty_five_percent_price.digits
        /\ c_pos.twenty_five_percent_price.digits > c_pos.thirty_percent_price.digits
        /\ IsRounded(c_pos.twenty_percent_size, 1000, 20)
        /\ IsRounded(c_pos.twenty_five_percent_size, 1000, 25)
        /\ IsRounded(c_pos.thirty_percent_size, 2000, 30)
        /\ (c_symbol = "BEAMUSDT" /\ c_price = 2 * PriceScale) =>
              /\ c_pos.twenty_percent_price = [digits |-> 1600000, decimals |-> 6]
              /\ c_pos.twenty_five_percent_price = [digits |-> 1500000, decimals |-> 6]
              /\ c_pos.thirty_percent_price = [digits |-> 1400000, decimals |-> 6]
              /\ c_pos.twenty_percent_size.digits = 625
              /\ c_pos.twenty_five_percent_size.digits = 667
              /\ c_pos.thirty_percent_size.digits = 1429
        /\ c_pc = "built" =>
              /\ Len(c_reqs) = NumTiers
              /\ \A i \in 1..NumTiers :
                    /\ c_reqs[i].symbol = c_symbol
                    /\ c_reqs[i].side = "Buy"
                    /\ c_reqs[i].orderType = "Limit"
              /\ <<c_reqs[1].qty, c_reqs[1].price>>
                    = <<c_pos.twenty_percent_size, c_pos.twenty_percent_price>>
              /\ <<c_reqs[2].qty, c_reqs[2].price>>
                    = <<c_pos.twenty_five_percent_size, c_pos.twenty_five_percent_price>>
              /\ <<c_reqs[3].qty, c_reqs[3].price>>
                    = <<c_pos.thirty_percent_size, c_pos.thirty_percent_price>>

C7_Witness ==
    /\ c_pc = "built"
    /\ c_symbol = "BEAMUSDT"
    /\ c_price = 2 * PriceScale
    /\ c_reqs[3].qty.digits = 1429

\* C8: the signature header of every placement and cancellation request is
\* the HMAC, keyed by the API secret, of the timestamp, API key and receive
\* window sent in the headers of that request followed by the body sent,
\* whose keys are category then request.
C8_SignedIsSent ==
    \A req \in inflight :
        /\ req.headers.X_BAPI_SIGN =
             [hmacKey |-> api_secret,
              msg |-> <<req.headers.X_BAPI_TIMESTAMP, req.headers.X_BAPI_API_KEY,
                        req.headers.X_BAPI_RECV_WINDOW, req.body>>]
        /\ Len(req.body) = 2
        /\ req.body[1] = <<"category", "linear">>
        /\ req.body[2][1] = "request"
        /\ req.headers.X_BAPI_TIMESTAMP = now

C8_Witness ==
    \E req \in CancelsInFlight :
        /\ Len(Payload(req)) = NumTiers
        /\ req.headers.X_BAPI_TIMESTAMP > HoldSecs * 1000

\* C9: a decoded envelope with a non-zero ret code is a successful
\* placement: its list entries are appended to the cycle's cancel list and
\* the loop moves on to the next symbol.
C9_RetCodeIgnored ==
    [][ (pc = "place_wait" /\ lastResp'.kind = "envelope" /\ lastResp'.retCode # 0) =>
            /\ pc' = "place"
            /\ idx' = idx + 1
            /\ cancel_order_data' = cancel_order_data \o RecordsOf(lastResp'.list) ]_vars

C9_Witness ==
    /\ pc = "place_wait"
    /\ idx = 2
    /\ lastResp.kind = "envelope"
    /\ lastResp.retCode # 0
    /\ cancel_order_data = RecordsOf(lastResp.list)
    /\ Len(cancel_order_data) = NumTiers

\* C10: no order record is ever carried by more than one cancel request;
\* when a placement error ends the process, none of the records the earlier
\* placements of that cycle returned has been sent in a cancel request; and
\* once a cycle's placements and its cancel call have all succeeded, every
\* record returned so far has been sent in exactly one cancel request.
C10_CancelledAtMostOnce ==
    /\ \A i \in 1..Len(cancelCount) : cancelCount[i] <= 1
    /\ (pc = "crashed" /\ crash = "Error placing order") =>
          \A i \in 1..Len(Flatten(placed)) : cancelCount[Flatten(placed)[i].orderId] = 0
    /\ pc = "cooldown" =>
          /\ Len(cancelCount) = nextId - 1
          /\ \A i \in 1..Len(cancelCount) : cancelCount[i] = 1

C10_Witness ==
    /\ pc = "crashed"
    /\ crash = "Error placing order"
    /\ cycle = 2
    /\ Len(Flatten(placed)) = NumTiers + 1
    /\ \E i \in 1..Len(cancelCount) : cancelCount[i] = 1

====
